---------------------------- MODULE Spec2Model ----------------------------
(* TurnTracker of src/turn_tracker.rs: an ordered roster of players, the   *)
(* index of the player who acts next, and the single-player flag.          *)
(*                                                                         *)
(* A User is identified by its name in every comparison the tracker makes  *)
(* (is_playing, find_position, the filter of remove_player, the duplicate  *)
(* check of add_player); its color is never read.  A player is therefore   *)
(* modelled by its name, a number of 1..NumNames.                          *)
(* Indices are 0-based as in the source: the element at index i of a Vec   *)
(* is ps[i + 1] here.  All indices stay far below usize::MAX, and the two  *)
(* subtractions of the source (lines 49, 50) are only evaluated on values  *)
(* >= 1, so plain integers model usize exactly.                            *)
EXTENDS Integers, Sequences, FiniteSets, TLC

\* ---------------------------------------------------------------- bounds
\* number of distinct player names (and so the largest roster)
NumNames == 3
\* longest recorded run of advance_player results between two mutations
MaxLog == 6

Names == 1..NumNames
\* Option::None, for a result and for the argument of a call without one
None == 0
\* find_position(..) == None
NoPos == -1

VARIABLES
    players,                      \* TurnTracker.players (names, in order)
    next_player_index,            \* TurnTracker.next_player_index
    single_player_mode_started,   \* TurnTracker.single_player_mode_started
    last,     \* the last call: [op, arg, result, panicked]
    pre,      \* the tracker as it was before the last call
    log,      \* results of the advance_player calls since the last mutation
    start,    \* next_player_index right after the last mutation
    run,      \* the current run of add_player calls and the tracker it began on
    turns     \* what the advance_player calls returned so far (see Turns)

vars == <<players, next_player_index, single_player_mode_started,
          last, pre, log, start, run, turns>>

\* ------------------------------------------------------------ the struct
Tracker(ps, idx, flag) ==
    [players |-> ps, next_player_index |-> idx,
     single_player_mode_started |-> flag]

Cur == Tracker(players, next_player_index, single_player_mode_started)

\* the outcome of a call: the tracker afterwards, the value returned, and
\* whether the call panicked
Outcome(t, res, pan) == [t |-> t, result |-> res, panicked |-> pan]

\* ------------------------------------------------------------- helpers
\* Vec::get
get(ps, i) == IF i >= 0 /\ i < Len(ps) THEN ps[i + 1] ELSE None

\* TurnTracker::new
new(ps) == Tracker(ps, 0, FALSE)

\* TurnTracker::is_playing
is_playing(ps, username) == \E k \in 1..Len(ps) : ps[k] = username

\* TurnTracker::num_players
num_players(ps) == Len(ps)

\* lines 94-100 reading players.last() instead of players.first()
is_first_player_reads_last(ps, name) ==
    IF ps # <<>> THEN name = ps[Len(ps)] ELSE FALSE

\* TurnTracker::is_first_player
is_first_player(ps, name) ==
    IF ps # <<>> THEN name = Head(ps) ELSE FALSE

\* Itertools::find_position: index of the first player with that name
find_position(ps, username) ==
    IF is_playing(ps, username)
    THEN CHOOSE i \in 0..(Len(ps) - 1) :
            /\ ps[i + 1] = username
            /\ \A j \in 0..(i - 1) : ps[j + 1] # username
    ELSE NoPos

\* the rosters new() is given: pairwise distinct names, in any order
RECURSIVE DistinctSeqs(_)
DistinctSeqs(n) ==
    IF n = 0 THEN {<<>>}
    ELSE LET shorter == DistinctSeqs(n - 1)
         IN shorter \cup
            UNION { { Append(s, x) : x \in { y \in Names : ~is_playing(s, y) } }
                    : s \in { q \in shorter : Len(q) = n - 1 } }

Rosters == DistinctSeqs(NumNames)

\* ---------------------------------------------------------- remove_player
\* lines 46-53 without the decrement of line 49
remove_adjust_no_decrement(len, idx, i) ==
    IF i = idx /\ idx = len - 1 THEN 0 ELSE idx

\* lines 46-53 without the wrap of line 51
remove_adjust_no_wrap(len, idx, i) ==
    IF i < idx THEN idx - 1 ELSE idx

\* lines 46-53: the cursor after removing index i from a roster of len players
remove_adjust(len, idx, i) ==
    IF i <= idx
    THEN IF i < idx THEN idx - 1
         ELSE IF idx = len - 1 THEN 0
         ELSE idx
    ELSE idx

\* lines 54-59 done with Vec::swap_remove: the last player fills the gap
remove_filter_swap(ps, username) ==
    LET i == CHOOSE k \in 1..Len(ps) : ps[k] = username
    IN  IF i = Len(ps) THEN SubSeq(ps, 1, Len(ps) - 1)
        ELSE SubSeq(ps, 1, i - 1) \o <<ps[Len(ps)]>>
                \o SubSeq(ps, i + 1, Len(ps) - 1)

\* lines 54-59: every player with another name, order kept
remove_filter(ps, username) == SelectSeq(ps, LAMBDA u : u # username)

\* the earlier revision without the lookup check: unwrap_or(0)
remove_player_lenient(t, username) ==
    LET pos == find_position(t.players, username)
        i   == IF pos = NoPos THEN 0 ELSE pos
    IN  Outcome(Tracker(remove_filter(t.players, username),
                        IF t.next_player_index > i
                        THEN t.next_player_index - 1
                        ELSE t.next_player_index,
                        t.single_player_mode_started),
                None, FALSE)

remove_player(t, username) ==
    LET i == find_position(t.players, username)
    IN  IF i = NoPos
        THEN Outcome(t, None, TRUE)              \* unwrap() of None
        ELSE Outcome(Tracker(remove_filter(t.players, username),
                             remove_adjust(Len(t.players),
                                           t.next_player_index, i),
                             t.single_player_mode_started),
                     None, FALSE)

\* ------------------------------------------------------------- add_player
\* lines 70-72 left out: the cursor stays
add_adjust_no_correction(len, idx, flag) == idx

\* lines 70-72 without the test of the flag
add_adjust_any_flag(len, idx, flag) == IF len = 2 THEN 1 ELSE idx

\* lines 70-72: the cursor after the push, len being the new roster size
add_adjust(len, idx, flag) == IF len = 2 /\ flag THEN 1 ELSE idx

\* the earlier revision without the duplicate check
add_player_unchecked(t, name) ==
    LET ps == Append(t.players, name)
    IN  Outcome(Tracker(ps,
                        add_adjust(Len(ps), t.next_player_index,
                                   t.single_player_mode_started),
                        t.single_player_mode_started),
                None, FALSE)

\* lines 70-72 clearing the flag once the correction is applied
add_player_consumes_flag(t, name) ==
    IF is_playing(t.players, name)
    THEN Outcome(t, None, TRUE)
    ELSE LET ps == Append(t.players, name)
         IN  Outcome(Tracker(ps,
                             add_adjust(Len(ps), t.next_player_index,
                                        t.single_player_mode_started),
                             IF Len(ps) = 2 THEN FALSE
                             ELSE t.single_player_mode_started),
                     None, FALSE)

add_player(t, name) ==
    IF is_playing(t.players, name)
    THEN Outcome(t, None, TRUE)                  \* panic!, nothing pushed
    ELSE LET ps == Append(t.players, name)
         IN  Outcome(Tracker(ps,
                             add_adjust(Len(ps), t.next_player_index,
                                        t.single_player_mode_started),
                             t.single_player_mode_started),
                     None, FALSE)

\* --------------------------------------------------------- advance_player
\* line 84 without the modulo
advance_index_no_wrap(idx, len) == idx + 1

\* line 84 stepping over a player
advance_index_skip(idx, len) == (idx + 2) % len

\* line 84
advance_index(idx, len) == (idx + 1) % len

\* line 81 moved above the emptiness test of line 78
advance_player_flag_first(t) ==
    IF t.players = <<>>
    THEN Outcome(Tracker(t.players, t.next_player_index, Len(t.players) = 1),
                 None, FALSE)
    ELSE Outcome(Tracker(t.players,
                         advance_index(t.next_player_index, Len(t.players)),
                         Len(t.players) = 1),
                 get(t.players, t.next_player_index), FALSE)

\* line 81 setting the flag once and never clearing it
advance_player_sticky_flag(t) ==
    IF t.players = <<>>
    THEN Outcome(t, None, FALSE)
    ELSE Outcome(Tracker(t.players,
                         advance_index(t.next_player_index, Len(t.players)),
                         t.single_player_mode_started \/ Len(t.players) = 1),
                 get(t.players, t.next_player_index), FALSE)

\* line 87 reading the cursor after line 84 has moved it
advance_player_returns_next(t) ==
    IF t.players = <<>>
    THEN Outcome(t, None, FALSE)
    ELSE Outcome(Tracker(t.players,
                         advance_index(t.next_player_index, Len(t.players)),
                         Len(t.players) = 1),
                 get(t.players,
                     advance_index(t.next_player_index, Len(t.players))),
                 FALSE)

advance_player(t) ==
    IF t.players = <<>>
    THEN Outcome(t, None, FALSE)
    ELSE Outcome(Tracker(t.players,
                         advance_index(t.next_player_index, Len(t.players)),
                         Len(t.players) = 1),
                 get(t.players, t.next_player_index), FALSE)

\* the results of n consecutive advance_player calls on tracker t
RECURSIVE Advances(_, _)
Advances(t, n) ==
    IF n = 0 THEN <<>>
    ELSE LET o == advance_player(t)
         IN  <<o.result>> \o Advances(o.t, n - 1)

\* ------------------------------------------------------------------ Init
Call(op, arg, out) ==
    [op |-> op, arg |-> arg, result |-> out.result, panicked |-> out.panicked]

Run(t, advanced, added) ==
    [players |-> t.players, advanced |-> advanced, added |-> added]

\* cur: result of the most recent advance_player call; prev: result of the
\* advance_player call before it; given: the most recent result that was a
\* player; alone: the players returned while they were the only player
Turns(prev, cur, given, alone) ==
    [prev |-> prev, cur |-> cur, given |-> given, alone |-> alone]

Init ==
    \E ps \in Rosters :
        /\ players = new(ps).players
        /\ next_player_index = new(ps).next_player_index
        /\ single_player_mode_started = new(ps).single_player_mode_started
        /\ last = Call("new", None, Outcome(new(ps), None, FALSE))
        /\ pre = new(ps)
        /\ log = <<>>
        /\ start = 0
        /\ run = Run(new(ps), FALSE, <<>>)
        /\ turns = Turns(None, None, None, {})

\* --------------------------------------------------------------- actions
Becomes(t) ==
    /\ players' = t.players
    /\ next_player_index' = t.next_player_index
    /\ single_player_mode_started' = t.single_player_mode_started

\* a call that changed the roster starts a new log
Mutated(out) ==
    IF out.panicked
    THEN UNCHANGED <<log, start>>
    ELSE log' = <<>> /\ start' = out.t.next_player_index

\* what every call does to the tracker, and the record of the call
Called(op, arg, out) ==
    /\ Becomes(out.t)
    /\ last' = Call(op, arg, out)
    /\ pre' = Cur

\* the run of add_player calls after add_player(name)
RunAfterAdd(out, name) ==
    IF out.panicked THEN run
    ELSE IF log = <<>> THEN [run EXCEPT !.added = Append(@, name)]
    ELSE Run(Cur, TRUE, <<name>>)

\* the run of add_player calls after a remove_player
RunAfterRemove(out) ==
    IF out.panicked THEN run ELSE Run(out.t, FALSE, <<>>)

\* the record of turns after an advance_player
TurnsAfterAdvance(out) ==
    Turns(turns.cur, out.result,
          IF out.result = None THEN turns.given ELSE out.result,
          IF out.result # None /\ Len(players) = 1
          THEN turns.alone \cup {out.result}
          ELSE turns.alone)

\* Spec: the three mutating operations, with the results since the last
\* mutation and the run of adds recorded
AdvancePlayer ==
    /\ players = <<>> \/ Len(log) < MaxLog
    /\ LET out == advance_player(Cur)
       IN  /\ Called("advance", None, out)
           /\ log' = IF players = <<>> THEN log ELSE Append(log, out.result)
           /\ UNCHANGED <<start, run, turns>>

AddPlayer ==
    \E name \in Names :
        LET out == add_player(Cur, name)
        IN  /\ Called("add", name, out)
            /\ Mutated(out)
            /\ run' = RunAfterAdd(out, name)
            /\ UNCHANGED turns

RemovePlayer ==
    \E username \in Names :
        LET out == remove_player(Cur, username)
        IN  /\ Called("remove", username, out)
            /\ Mutated(out)
            /\ run' = RunAfterRemove(out)
            /\ UNCHANGED turns

Next == AdvancePlayer \/ AddPlayer \/ RemovePlayer

Spec == Init /\ [][Next]_vars

\* SpecTurns: the same three operations, with the results of the last
\* advance_player calls recorded across mutations
AdvancePlayerTurn ==
    LET out == advance_player(Cur)
    IN  /\ Called("advance", None, out)
        /\ turns' = TurnsAfterAdvance(out)
        /\ UNCHANGED <<log, start, run>>

AddPlayerTurn ==
    \E name \in Names :
        /\ Called("add", name, add_player(Cur, name))
        /\ UNCHANGED <<log, start, run, turns>>

RemovePlayerTurn ==
    \E username \in Names :
        /\ Called("remove", username, remove_player(Cur, username))
        /\ UNCHANGED <<log, start, run, turns>>

NextTurns == AdvancePlayerTurn \/ AddPlayerTurn \/ RemovePlayerTurn

SpecTurns == Init /\ [][NextTurns]_vars

\* SpecObs: the three operations and the three observers, which take &self:
\* they return a value and assign nothing
Observed(op, arg, res) ==
    /\ Called(op, arg, Outcome(Cur, res, FALSE))
    /\ UNCHANGED <<log, start, run, turns>>

AdvancePlayerObs ==
    /\ Called("advance", None, advance_player(Cur))
    /\ UNCHANGED <<log, start, run, turns>>

IsPlaying ==
    \E username \in Names :
        Observed("is_playing", username, is_playing(players, username))

NumPlayers == Observed("num_players", None, num_players(players))

IsFirstPlayer ==
    \E name \in Names :
        Observed("is_first_player", name, is_first_player(players, name))

NextObs ==
    \/ AdvancePlayerObs
    \/ AddPlayerTurn
    \/ RemovePlayerTurn
    \/ IsPlaying
    \/ NumPlayers
    \/ IsFirstPlayer

SpecObs == Init /\ [][NextObs]_vars

TypeOK ==
    /\ players \in Rosters
    /\ next_player_index \in 0..NumNames
    /\ single_player_mode_started \in BOOLEAN
    /\ Len(log) <= MaxLog

\* ------------------------------------------------------------ properties
Done(op) == last.op = op /\ ~last.panicked

\* the player the next advance_player call returns
Upcoming(t) == advance_player(t).result

\* position k (1-based) of the cyclic reading of order from 0-based index from
Cyclic(order, from, k) == order[((from + k - 1) % Len(order)) + 1]

\* C1: whenever the roster is non-empty, 0 <= next_player_index < number of
\* players.
C1_CursorInRange ==
    players # <<>> =>
        next_player_index >= 0 /\ next_player_index < Len(players)

\* a removal left the cursor on the last of at least two players
C1_Witness ==
    /\ Done("remove")
    /\ Len(players) >= 2
    /\ next_player_index = Len(players) - 1

\* C2: with the roster not mutated, the advance_player calls return the
\* players in roster order taken cyclically from the cursor: every block of N
\* calls returns every player exactly once, and each block repeats the one
\* before.
C2_RoundRobin ==
    LET N == Len(players)
    IN  /\ \A k \in 1..Len(log) : log[k] = Cyclic(players, start, k)
        /\ \A k \in 1..Len(log) :
              k + N - 1 <= Len(log) =>
                  /\ { log[j] : j \in k..(k + N - 1) } = { players[j] : j \in 1..N }
                  /\ \A i, j \in k..(k + N - 1) : i # j => log[i] # log[j]
        /\ \A k \in 1..Len(log) : k + N <= Len(log) => log[k + N] = log[k]

\* two full rounds of a roster of three, begun in the middle of the roster
C2_Witness ==
    /\ Len(players) >= 3
    /\ start = 1
    /\ Len(log) >= 2 * Len(players)

\* C3: when a second player B joins a sole player A whom advance_player has
\* returned since the last mutation, the advances return B, then A, then B,
\* alternating; players added after B before the next advance act after B and
\* before A.
C3_JoinCorrection ==
    (Len(run.players) = 1 /\ run.advanced /\ run.added # <<>>) =>
        LET order == run.added \o run.players
        IN  /\ players = run.players \o run.added
            /\ \A k \in 1..Len(log) : log[k] = Cyclic(order, 0, k)

\* two players joined the sole player and more than a round was played
C3_Witness ==
    /\ Len(run.players) = 1 /\ run.advanced
    /\ Len(run.added) = 2
    /\ Len(log) >= 4

\* C4: removing, from a roster of at least two, a player who is not the one
\* at the cursor leaves the upcoming player unchanged.
C4_RemoveOtherKeepsUpcoming ==
    (/\ Done("remove")
     /\ Len(pre.players) >= 2
     /\ get(pre.players, pre.next_player_index) # last.arg) =>
        /\ Upcoming(Cur) = Upcoming(pre)
        /\ Upcoming(Cur) # None
        /\ next_player_index =
              IF find_position(pre.players, last.arg) < pre.next_player_index
              THEN pre.next_player_index - 1
              ELSE pre.next_player_index

\* the removed player stood before the cursor
C4_Witness ==
    /\ Done("remove")
    /\ Len(pre.players) >= 3
    /\ find_position(pre.players, last.arg) < pre.next_player_index

\* C5: removing the player at the cursor makes the next advance_player return
\* that player's cyclic successor in the old roster order, and no result when
\* the roster became empty.
C5_RemoveUpcomingYieldsSuccessor ==
    (/\ Done("remove")
     /\ get(pre.players, pre.next_player_index) = last.arg) =>
        IF Len(pre.players) = 1
        THEN players = <<>> /\ Upcoming(Cur) = None
        ELSE Upcoming(Cur) =
                Cyclic(pre.players, pre.next_player_index + 1, 1)

\* the removed player was at the cursor and last in order
C5_Witness ==
    /\ Done("remove")
    /\ Len(pre.players) >= 2
    /\ get(pre.players, pre.next_player_index) = last.arg
    /\ pre.next_player_index = Len(pre.players) - 1

\* C6: add_player(P) on a non-empty roster, when the single-player correction
\* does not apply, appends P, keeps the order of the others and the cursor:
\* the upcoming player is unchanged and P acts right after the players from
\* the cursor to the end of the old roster.
C6_AppendKeepsOrder ==
    (/\ Done("add")
     /\ pre.players # <<>>
     /\ ~(pre.single_player_mode_started /\ Len(pre.players) + 1 = 2)) =>
        /\ players = Append(pre.players, last.arg)
        /\ next_player_index = pre.next_player_index
        /\ Upcoming(Cur) = Upcoming(pre)
        /\ Advances(Cur, Len(players) - next_player_index) =
              SubSeq(pre.players, pre.next_player_index + 1, Len(pre.players))
                 \o <<last.arg>>

\* a third player joined while the second was still to act
C6_Witness ==
    /\ Done("add")
    /\ Len(pre.players) = 2
    /\ pre.next_player_index = 1

\* C7: on an empty roster advance_player returns no result, and after two
\* players are added to an empty roster the advances return what they return
\* on a tracker constructed with new() on these two players.
C7_ReentryAfterEmpty ==
    /\ (last.op = "advance" /\ pre.players = <<>>) => last.result = None
    /\ (run.players = <<>> /\ Len(run.added) = 2) =>
          log = Advances(new(run.added), Len(log))

\* C8: advance_player on an empty roster returns no result and leaves roster,
\* cursor and flag unchanged; an empty roster stays empty under it.
C8_AdvanceOnEmpty ==
    /\ (last.op = "advance" /\ pre.players = <<>>) =>
          /\ last.result = None
          /\ ~last.panicked
          /\ Cur = pre
    /\ players = <<>> =>
          /\ advance_player(Cur).result = None
          /\ advance_player(Cur).t = Cur

\* advance_player was called after removals emptied a roster that had been
\* advanced with one player
C8_Witness ==
    /\ last.op = "advance"
    /\ pre.players = <<>>
    /\ pre.single_player_mode_started
    /\ run.players = <<>> /\ run.added = <<>>

\* C9: add_player with a name already in the roster panics and leaves
\* roster, cursor and flag as they were.
C9_DuplicateRejected ==
    (last.op = "add" /\ is_playing(pre.players, last.arg)) =>
        /\ last.panicked
        /\ Cur = pre
        /\ Len(players) = Len(pre.players)

\* a duplicate was added to a roster of two whose cursor is not 0
C9_Witness ==
    /\ last.op = "add"
    /\ is_playing(pre.players, last.arg)
    /\ Len(pre.players) >= 2
    /\ pre.next_player_index > 0

\* C10: remove_player with a name absent from the roster (an empty roster
\* included) panics and leaves roster, cursor and flag as they were.
C10_UnknownRemovalRejected ==
    (last.op = "remove" /\ ~is_playing(pre.players, last.arg)) =>
        /\ last.panicked
        /\ Cur = pre
        /\ Len(players) = Len(pre.players)

\* an absent name was removed from a roster whose cursor is not 0
C10_Witness ==
    /\ last.op = "remove"
    /\ ~is_playing(pre.players, last.arg)
    /\ pre.players # <<>>
    /\ pre.next_player_index > 0

\* the roster without its element at 0-based index i
Without(ps, i) == SubSeq(ps, 1, i) \o SubSeq(ps, i + 2, Len(ps))

Observers == {"is_playing", "num_players", "is_first_player"}

\* C11: no two roster entries ever have the same name.
C11_NamesUnique ==
    \A i, j \in 1..Len(players) : i # j => players[i] # players[j]

\* add_player was called with the name of a player of a full roster
C11_Witness ==
    /\ last.op = "add"
    /\ is_playing(pre.players, last.arg)
    /\ Len(players) = NumNames

\* C12: a successful remove_player(name) shortens the roster by exactly one,
\* the name is no longer playing, and the other players keep their order.
C12_RemoveExactlyNamed ==
    Done("remove") =>
        /\ Len(players) = Len(pre.players) - 1
        /\ ~is_playing(players, last.arg)
        /\ \E i \in 0..(Len(pre.players) - 1) :
              /\ pre.players[i + 1] = last.arg
              /\ players = Without(pre.players, i)

\* the first of three players was removed
C12_Witness ==
    /\ Done("remove")
    /\ Len(pre.players) >= 3
    /\ pre.players[1] = last.arg

\* C13: is_playing(name) is true iff a roster player has that name,
\* num_players() is the roster length, is_first_player(name) is true iff the
\* roster is non-empty and its first player has that name; none of the three
\* changes roster, cursor or flag.
C13_ObserversExact ==
    /\ last.op = "is_playing" =>
          last.result = (last.arg \in { players[k] : k \in 1..Len(players) })
    /\ last.op = "num_players" =>
          last.result = Cardinality(DOMAIN players)
    /\ last.op = "is_first_player" =>
          last.result = (players # <<>> /\ players[1] = last.arg)
    /\ last.op \in Observers => Cur = pre /\ ~last.panicked

\* is_first_player answered false for the last of several players
C13_Witness ==
    /\ last.op = "is_first_player"
    /\ Len(players) >= 2
    /\ players[Len(players)] = last.arg
    /\ last.result = FALSE

\* C14: whenever add_player applies the single-player correction, the sole
\* player already there was returned by advance_player while being the only
\* player, and is the player the most recent advance_player with a result
\* returned.
C14_CorrectionOnlyAfterWrap ==
    (/\ Done("add")
     /\ Len(players) = 2
     /\ pre.single_player_mode_started) =>
        /\ next_player_index = 1
        /\ pre.players[1] \in turns.alone
        /\ turns.given = pre.players[1]

\* C15: right after every advance_player call on a non-empty roster the flag
\* equals (roster size = 1).
C15_FlagTracksSize ==
    (last.op = "advance" /\ pre.players # <<>>) =>
        single_player_mode_started = (Len(players) = 1)

\* the flag was set and an advance with two players cleared it
C15_Witness ==
    /\ last.op = "advance"
    /\ Len(pre.players) = 2
    /\ pre.single_player_mode_started
    /\ ~single_player_mode_started

\* C16: add_player, remove_player and the observers leave the flag as it was.
C16_FlagOnlySetByAdvance ==
    last.op \in {"add", "remove"} \cup Observers =>
        single_player_mode_started = pre.single_player_mode_started

\* a second player joined while the flag was set
C16_Witness ==
    /\ Done("add")
    /\ Len(players) = 2
    /\ pre.single_player_mode_started

\* C17: whenever the roster is empty the cursor is 0, and the first player
\* added is the one the next advance_player returns.
C17_EmptyCursorZero ==
    players = <<>> =>
        /\ next_player_index = 0
        /\ \A name \in Names :
              Upcoming(add_player(Cur, name).t) = name

\* a removal emptied a roster that had been advanced with one player
C17_Witness ==
    /\ players = <<>>
    /\ Done("remove")
    /\ pre.single_player_mode_started

\* C18: on a non-empty roster advance_player returns the player at the cursor
\* before the call, a member of the roster, and leaves the roster as it was.
C18_AdvanceReturnsMember ==
    (last.op = "advance" /\ pre.players # <<>>) =>
        /\ last.result # None
        /\ last.result = pre.players[pre.next_player_index + 1]
        /\ is_playing(players, last.result)
        /\ players = pre.players

\* an advance on the last of three players
C18_Witness ==
    /\ last.op = "advance"
    /\ Len(pre.players) >= 3
    /\ pre.next_player_index = Len(pre.players) - 1

\* C19: two consecutive advance_player calls that both return a player, with
\* any add_player or remove_player calls between them, return different
\* players when the roster has at least two players at the second call.
C19_NoTwoTurnsInARow ==
    (/\ last.op = "advance"
     /\ Len(pre.players) >= 2
     /\ turns.cur # None
     /\ turns.prev # None) =>
        turns.cur # turns.prev
=============================================================================
